---- MODULE Spec2Model ----
(***************************************************************************)
(* A model of the two print-file checkers of the repository:               *)
(*   src/UPS_File_Check.py  (size / DPI / colour / safe-zone checks of a   *)
(*                           PDF, and size / DPI / mode checks of an       *)
(*                           image, run over a batch of uploads)           *)
(*   src/PDF_Check3.py      (size / DPI / colour checks of a PDF and an    *)
(*                           overall summary, run over a batch of uploads) *)
(*                                                                         *)
(* The parsing libraries (PyPDF2, PyMuPDF, pikepdf, PIL) are outside the   *)
(* repository.  An uploaded file is modelled by what those libraries       *)
(* report about it: whether it opens, its pages, the rasters, boxes, text  *)
(* and declared colour spaces of each page, and which accesses raise.      *)
(*                                                                         *)
(* Lengths are integers in units of 1/100000 point (72 points = 1 inch),   *)
(* so that the safe margin 0.00001 * 72 pt, the inch tolerances 0.05 and   *)
(* 0.01 and the accepted sizes are all exact.  Floating-point rounding is  *)
(* not modelled.                                                           *)
(***************************************************************************)
EXTENDS Integers, Sequences, FiniteSets, TLC

VARIABLES
    program,         \* which script runs: "UPS_File_Check", "PDF_Check3", or "size_matches" (the function alone)
    uploaded_files,  \* the batch returned by st.file_uploader
    idx,             \* position of the module-level for loop (index of the current file)
    pc,              \* position inside the script / the current handler
    shown,           \* everything rendered so far (color_box / st.info calls), in order
    loc,             \* the local variables of the running analyze_pdf call
    call,            \* arguments of a direct size_matches call
    ret              \* its return value

vars == <<program, uploaded_files, idx, pc, shown, loc, call, ret>>

---------------------------------------------------------------------------
(* Units *)

PointUnit == 1000 * 100          \* model units per point
Inch == 72 * PointUnit           \* model units per inch
Centi == Inch \div 100           \* model units per 0.01 inch

Abs(x) == IF x < 0 THEN -x ELSE x

Range(s) == {s[i] : i \in 1..Len(s)}

SeqsUpTo(S, n) == UNION {[1..k -> S] : k \in 0..n}

\* every enumeration order of a finite set (iteration order of a Python set)
Orders(S) == {s \in [1..Cardinality(S) -> S] : \A i, j \in 1..Cardinality(S) : s[i] = s[j] => i = j}

---------------------------------------------------------------------------
(* Bounds of the model *)

MaxDim == 3        \* direct size_matches calls: widths / heights range over 0..MaxDim
MaxTol == 1        \* direct size_matches calls: tolerance ranges over 0..MaxTol
MaxSizes == 2      \* direct size_matches calls: length of the accepted-size list
MaxPages == 2      \* pages of a document
MaxItems == 2      \* rasters / boxes / declared colour spaces of a document
MaxFiles == 2      \* files of one upload

---------------------------------------------------------------------------
(* Program constants *)

\* UPS_File_Check.py
ACCEPTED_SIZES == << <<400 * Centi, 600 * Centi>>, <<500 * Centi, 700 * Centi>>, <<800 * Centi, 1000 * Centi>> >>
DEFAULT_TOLERANCE == 5 * Centi                  \* tolerance=0.05
MIN_DPI == 300
SAFE_MARGIN == (1 * 72 * PointUnit) \div 100000  \* 0.00001 * 72 points
ACCEPTED_COLOR == {"DeviceCMYK", "DeviceRGB", "CMYK", "RGB"}
IMAGE_MODES_OK == {"RGB", "CMYK"}
DEFAULT_DPI == <<72, 72>>                      \* info.get("dpi", (72, 72))

\* PDF_Check3.py
PRINTER_WIDTH == 850 * Centi
PRINTER_HEIGHT == 1100 * Centi
PDF3_SIZE_EPS == 1 * Centi                      \* < 0.01
PDF3_ACCEPTED_COLOR == {"DeviceCMYK", "DeviceRGB"}

---------------------------------------------------------------------------
(* size_matches *)

RECURSIVE size_matches_no_rotation(_, _, _, _)
size_matches_no_rotation(actual_w, actual_h, accepted_sizes, tolerance) ==
    IF accepted_sizes = <<>> THEN FALSE
    ELSE LET aw == Head(accepted_sizes)[1]
             ah == Head(accepted_sizes)[2]
         IN  IF Abs(actual_w - aw) <= tolerance /\ Abs(actual_h - ah) <= tolerance THEN TRUE
             ELSE size_matches_no_rotation(actual_w, actual_h, Tail(accepted_sizes), tolerance)

RECURSIVE size_matches(_, _, _, _)
size_matches(actual_w, actual_h, accepted_sizes, tolerance) ==
    IF accepted_sizes = <<>> THEN FALSE
    ELSE LET aw == Head(accepted_sizes)[1]
             ah == Head(accepted_sizes)[2]
         IN  IF Abs(actual_w - aw) <= tolerance /\ Abs(actual_h - ah) <= tolerance THEN TRUE
             ELSE IF Abs(actual_w - ah) <= tolerance /\ Abs(actual_h - aw) <= tolerance THEN TRUE
             ELSE size_matches(actual_w, actual_h, Tail(accepted_sizes), tolerance)

---------------------------------------------------------------------------
(* What the parsing libraries report about an uploaded file *)

\* one embedded raster: whether extract_image / Image.open succeed, its "dpi"
\* metadata (<<>> when absent), its PIL mode, and its placement rectangles
Raster(decodes, dpi, mode, rects) == [decodes |-> decodes, dpi |-> dpi, mode |-> mode, rects |-> rects]

\* one rectangle: a text block (with its text) or an image placement (text "")
Rect(x0, y0, x1, y1, text) == [x0 |-> x0, y0 |-> y0, x1 |-> x1, y1 |-> y1, text |-> text]

\* one /XObject entry of a page's resources, as pikepdf shows it: kind is
\*   "name"      /ColorSpace is a pikepdf.Name whose str() is label
\*   "array"     /ColorSpace is present but not a Name
\*   "absent"    the entry has no /ColorSpace
\*   "malformed" reading the entry raises
XObject(kind, label) == [kind |-> kind, label |-> label]

LETTER_RECT == <<612 * PointUnit, 792 * PointUnit>>

BlankPage ==
    [rect |-> LETTER_RECT, images |-> <<>>, blocks |-> <<>>, text |-> <<>>, text_ok |-> TRUE,
     xobjects |-> <<>>, res_ok |-> TRUE]

\* a well-formed one-page 4 x 6 inch PDF with nothing on the page
BlankPdf ==
    [ext |-> "pdf", opens |-> TRUE, mediabox |-> <<400 * Centi, 600 * Centi>>, pages |-> <<BlankPage>>,
     pike_opens |-> TRUE, root_ok |-> TRUE, root |-> {},
     dpi |-> <<>>, size |-> <<0, 0>>, mode |-> "RGB"]

\* a well-formed 4 x 6 inch RGB image at 300 DPI
PlainImage ==
    [ext |-> "png", opens |-> TRUE, mediabox |-> <<0, 0>>, pages |-> <<>>,
     pike_opens |-> FALSE, root_ok |-> FALSE, root |-> {},
     dpi |-> <<300, 300>>, size |-> <<1200, 1800>>, mode |-> "RGB"]

\* str.lower() on the extensions the uploaders accept
Lower(ext) == IF ext = "PDF" THEN "pdf" ELSE ext

IsPdfName(file) == Lower(file.ext) = "pdf"

\* the rasters of a document in scan order, each with its 1-based page number
RECURSIVE ImagesFrom(_, _)
ImagesFrom(pages, page_number) ==
    IF pages = <<>> THEN <<>>
    ELSE [i \in 1..Len(Head(pages).images) |-> [page |-> page_number, img |-> Head(pages).images[i]]]
         \o ImagesFrom(Tail(pages), page_number + 1)

DocImages(file) == ImagesFrom(file.pages, 1)

\* pil_img.info.get("dpi", (72, 72))
DpiOf(img) == IF img.dpi = <<>> THEN DEFAULT_DPI ELSE img.dpi

\* one rendered element (color_box, st.info)
Box(msg, type) == [msg |-> msg, type |-> type, file |-> 0, page |-> 0, dpi |-> <<>>, labels |-> {}, text |-> ""]

---------------------------------------------------------------------------
(* Resolution check of a document (both scripts) *)

\* UPS_File_Check.py:222, PDF_Check3.py:130
LowDpi(dpi) == dpi[1] < MIN_DPI \/ dpi[2] < MIN_DPI

RECURSIVE LowResOf(_)
LowResOf(imgs) ==
    IF imgs = <<>> THEN <<>>
    ELSE (IF LowDpi(DpiOf(Head(imgs).img))
          THEN << [page |-> Head(imgs).page, dpi |-> DpiOf(Head(imgs).img)] >>
          ELSE <<>>) \o LowResOf(Tail(imgs))

\* the loop raises at the first raster that cannot be extracted or opened
ResolutionRaises(file) == \E i \in 1..Len(DocImages(file)) : ~DocImages(file)[i].img.decodes

LowResBoxes(low_res) ==
    [i \in 1..Len(low_res) |-> [Box("low_dpi", "warning") EXCEPT !.page = low_res[i].page, !.dpi = low_res[i].dpi]]

\* UPS_File_Check.py:225-229
UpsResolutionBoxes(low_res) ==
    IF low_res /= <<>> THEN LowResBoxes(low_res)
    ELSE << Box("dpi_ok", "success") >>

\* PDF_Check3.py:134-141
Pdf3ResolutionBoxes(low_res_images, all_dpi) ==
    IF low_res_images /= <<>> THEN LowResBoxes(low_res_images)
    ELSE IF all_dpi /= <<>> THEN << Box("dpi_ok", "success") >>
    ELSE << Box("no_images", "info") >>

---------------------------------------------------------------------------
(* Colour detection helpers (UPS_File_Check.py) *)

\* detect_default_color_space: "None" stands for Python's None
detect_default_color_space(pdf) ==
    IF ~pdf.root_ok THEN "None"
    ELSE IF "/DefaultRGB" \in pdf.root THEN "RGB"
    ELSE IF "/DefaultCMYK" \in pdf.root THEN "CMYK"
    ELSE "None"

\* Python's  token in text  on strings: text and token are sequences of characters
Contains(text, token) ==
    \E i \in 1..(Len(text) - Len(token) + 1) : SubSeq(text, i, i + Len(token) - 1) = token

HasRgbToken(text) == Contains(text, <<" ", "r", "g">>) \/ Contains(text, <<" ", "R", "G">>)
HasCmykToken(text) == Contains(text, <<" ", "k">>) \/ Contains(text, <<" ", "K">>)

RECURSIVE streams_scan_cmyk_first(_)
streams_scan_cmyk_first(pages) ==
    IF pages = <<>> THEN "None"
    ELSE IF ~Head(pages).text_ok THEN "None"
    ELSE IF HasCmykToken(Head(pages).text) THEN "CMYK"
    ELSE IF HasRgbToken(Head(pages).text) THEN "RGB"
    ELSE streams_scan_cmyk_first(Tail(pages))

\* detect_color_from_streams, on the pages of the document: the loop returns at
\* the first page holding a token; a page whose get_text raises ends the scan
RECURSIVE streams_scan(_)
streams_scan(pages) ==
    IF pages = <<>> THEN "None"
    ELSE IF ~Head(pages).text_ok THEN "None"
    ELSE IF HasRgbToken(Head(pages).text) THEN "RGB"
    ELSE IF HasCmykToken(Head(pages).text) THEN "CMYK"
    ELSE streams_scan(Tail(pages))

detect_color_from_streams(doc) == streams_scan(doc.pages)

\* detect_color_from_images: the modes of the rasters opened before the first
\* one that raises (the except keeps what was added to the set)
RECURSIVE modes_scan(_)
modes_scan(imgs) ==
    IF imgs = <<>> THEN {}
    ELSE IF ~Head(imgs).img.decodes THEN {}
    ELSE {Head(imgs).img.mode} \cup modes_scan(Tail(imgs))

detect_color_from_images(doc) == modes_scan(DocImages(doc))

\* Method 1, the inline loop of analyze_pdf: the labels added page by page and
\* entry by entry, up to the first access that raises
RECURSIVE XObjectsFrom(_)
XObjectsFrom(pages) ==
    IF pages = <<>> THEN <<>>
    ELSE IF ~Head(pages).res_ok THEN << XObject("malformed", "") >>
    ELSE Head(pages).xobjects \o XObjectsFrom(Tail(pages))

RECURSIVE ups_declared_scan(_)
ups_declared_scan(xobjs) ==
    IF xobjs = <<>> THEN [raised |-> FALSE, labels |-> {}]
    ELSE IF Head(xobjs).kind = "malformed" THEN [raised |-> TRUE, labels |-> {}]
    ELSE LET rest == ups_declared_scan(Tail(xobjs))
         IN  [raised |-> rest.raised,
              labels |-> (IF Head(xobjs).kind = "name" THEN {Head(xobjs).label} ELSE {}) \cup rest.labels]

UpsDeclared(file) == ups_declared_scan(XObjectsFrom(file.pages))

UpsEvaluateNoFilter(color_spaces) ==
    IF color_spaces /= {}
    THEN [Box("unsupported_color", "warning") EXCEPT !.labels = color_spaces]
    ELSE Box("no_color_info", "warning")

\* UPS_File_Check.py:265-273
UpsEvaluate(color_spaces) ==
    IF color_spaces /= {}
    THEN LET invalid == {c \in color_spaces : c \notin ACCEPTED_COLOR}
         IN  IF invalid /= {}
             THEN [Box("unsupported_color", "warning") EXCEPT !.labels = invalid]
             ELSE Box("color_ok", "success")
    ELSE Box("no_color_info", "warning")

\* the whole colour section of analyze_pdf, UPS_File_Check.py:237-276: the
\* locals it leaves and the one box it shows.  ran is the set of detection
\* methods that were executed.
UpsColorSection(file) ==
    LET none == [color_spaces |-> {}, default_cs |-> "None", stream_cs |-> "None", img_modes |-> {}]
        m1 == UpsDeclared(file)
        d == detect_default_color_space(file)
        s == detect_color_from_streams(file)
        im == detect_color_from_images(file)
        all == m1.labels \cup (IF d /= "None" THEN {d} ELSE {}) \cup (IF s /= "None" THEN {s} ELSE {}) \cup im
    IN  IF ~file.pike_opens
        THEN [none EXCEPT !.color_spaces = {}] @@ [cs_bound |-> FALSE, ran |-> {}, box |-> Box("color_error", "error")]
        ELSE IF m1.raised
        THEN [none EXCEPT !.color_spaces = m1.labels] @@ [cs_bound |-> TRUE, ran |-> {1}, box |-> Box("color_error", "error")]
        ELSE [color_spaces |-> all, default_cs |-> d, stream_cs |-> s, img_modes |-> im,
              cs_bound |-> TRUE, ran |-> {1, 2, 3, 4}, box |-> UpsEvaluate(all)]

---------------------------------------------------------------------------
(* Safe-zone check (UPS_File_Check.py) *)

TooCloseInclusive(r, page) ==
    \/ r.x0 <= SAFE_MARGIN
    \/ r.y0 <= SAFE_MARGIN
    \/ r.x1 >= page.rect[1] - SAFE_MARGIN
    \/ r.y1 >= page.rect[2] - SAFE_MARGIN

\* the condition of check_margin, lines 168-173 and 179-184
TooClose(r, page) ==
    \/ r.x0 < SAFE_MARGIN
    \/ r.y0 < SAFE_MARGIN
    \/ r.x1 > page.rect[1] - SAFE_MARGIN
    \/ r.y1 > page.rect[2] - SAFE_MARGIN

\* the placement rectangles of a page's rasters, in scan order
RECURSIVE ImageRects(_)
ImageRects(images) ==
    IF images = <<>> THEN <<>> ELSE Head(images).rects \o ImageRects(Tail(images))

RECURSIVE MarginIssues(_, _, _, _)
MarginIssues(rects, page, page_number, msg) ==
    IF rects = <<>> THEN <<>>
    ELSE (IF TooClose(Head(rects), page)
          THEN << [Box(msg, "warning") EXCEPT !.page = page_number, !.text = Head(rects).text] >>
          ELSE <<>>) \o MarginIssues(Tail(rects), page, page_number, msg)

check_margin(page, page_number) ==
    MarginIssues(page.blocks, page, page_number, "margin_text")
    \o MarginIssues(ImageRects(page.images), page, page_number, "margin_image")

\* analyze_pdf lines 280-282
RECURSIVE AllMarginIssues(_, _)
AllMarginIssues(pages, page_number) ==
    IF pages = <<>> THEN <<>>
    ELSE check_margin(Head(pages), page_number) \o AllMarginIssues(Tail(pages), page_number + 1)

---------------------------------------------------------------------------
(* Colour check of PDF_Check3.py *)

\* lines 148-158: a page whose resources cannot be read raises out of the loop;
\* an entry whose /ColorSpace cannot be read is skipped by the inner except
RECURSIVE pdf3_declared_scan(_)
pdf3_declared_scan(pages) ==
    IF pages = <<>> THEN [raised |-> FALSE, labels |-> {}]
    ELSE IF ~Head(pages).res_ok THEN [raised |-> TRUE, labels |-> {}]
    ELSE LET rest == pdf3_declared_scan(Tail(pages))
             here == {Head(pages).xobjects[i].label : i \in {j \in 1..Len(Head(pages).xobjects) : Head(pages).xobjects[j].kind = "name"}}
         IN  [raised |-> rest.raised, labels |-> here \cup rest.labels]

Pdf3Invalid(color_spaces) == {c \in color_spaces : c \notin PDF3_ACCEPTED_COLOR}

\* lines 160-169, the invalid labels taken in the order given
Pdf3EvaluateBoxes(color_spaces, order) ==
    IF color_spaces /= {}
    THEN << [Box("detected_colors", "write") EXCEPT !.labels = color_spaces] >>
         \o (IF Pdf3Invalid(color_spaces) /= {}
             THEN [i \in 1..Len(order) |-> [Box("unsupported_color", "warning") EXCEPT !.labels = {order[i]}]]
             ELSE << Box("color_ok", "success") >>)
    ELSE << Box("no_color_info", "info") >>

\* lines 175-182, reached with color_spaces bound
Pdf3Passed(width, height, low_res_images, color_spaces) ==
    /\ Abs(width - PRINTER_WIDTH) < PDF3_SIZE_EPS /\ Abs(height - PRINTER_HEIGHT) < PDF3_SIZE_EPS
    /\ low_res_images = <<>>
    /\ ~(color_spaces /= {} /\ \E c \in color_spaces : c \notin PDF3_ACCEPTED_COLOR)

---------------------------------------------------------------------------
(* analyze_image (UPS_File_Check.py) *)

\* line 313
ImageLowDpi(dpi) == dpi[1] < MIN_DPI

\* lines 299-322: what is shown for an image that opened.  The sizes drawn by
\* the model are whole multiples of the DPI, so the divisions are exact.
AnalyzeImageBoxes(file) ==
    LET dpi == DpiOf(file)
        width_in == ((file.size[1] * Centi) \div dpi[1]) * 100
        height_in == ((file.size[2] * Centi) \div dpi[2]) * 100
    IN  << [Box("image_size", "success") EXCEPT !.dpi = dpi],
           IF size_matches(width_in, height_in, ACCEPTED_SIZES, DEFAULT_TOLERANCE)
           THEN Box("image_size_ok", "success") ELSE Box("image_size_mismatch", "warning"),
           IF ImageLowDpi(dpi) THEN Box("image_low_dpi", "warning") ELSE Box("image_dpi_ok", "success"),
           IF file.mode \in IMAGE_MODES_OK
           THEN [Box("image_mode_ok", "success") EXCEPT !.labels = {file.mode}]
           ELSE [Box("image_mode_unusual", "warning") EXCEPT !.labels = {file.mode}] >>

---------------------------------------------------------------------------
(* The scripts as state machines *)

FreshLoc ==
    [width |-> 0, height |-> 0, low_res |-> <<>>, all_dpi |-> <<>>,
     color_spaces |-> {}, cs_bound |-> FALSE, default_cs |-> "None", stream_cs |-> "None",
     img_modes |-> {}, ran |-> {}, issues |-> <<>>, passed |-> FALSE, done |-> {}]

CurrentFile == uploaded_files[idx]

\* boxes appended to the page, tagged with the file they belong to
Emit(boxes) == shown' = shown \o [i \in 1..Len(boxes) |-> [boxes[i] EXCEPT !.file = idx]]

\* an exception nobody catches ends the script run
Raise == pc' = "raised" /\ UNCHANGED loc

Scripts == {"UPS_File_Check", "PDF_Check3"}

\* the module-level loops: UPS_File_Check.py:329-334, PDF_Check3.py:190-192
BatchLoop ==
    /\ program \in Scripts
    /\ pc = "loop"
    /\ IF idx < Len(uploaded_files)
       THEN /\ idx' = idx + 1
            /\ loc' = FreshLoc
            /\ pc' = IF program = "PDF_Check3" THEN "pdf3_open"
                     ELSE IF IsPdfName(uploaded_files[idx + 1]) THEN "ups_open"
                     ELSE "image"
       ELSE /\ pc' = "done"
            /\ UNCHANGED <<idx, loc>>
    /\ UNCHANGED <<program, uploaded_files, shown, call, ret>>

\* UPS analyze_pdf, lines 195-200: header, read, PdfReader, fitz.open
UpsOpen ==
    /\ pc = "ups_open"
    /\ Emit(<< Box("file_header", "markdown") >>)
    /\ IF CurrentFile.opens THEN pc' = "ups_size" /\ UNCHANGED loc ELSE Raise
    /\ UNCHANGED <<program, uploaded_files, idx, call, ret>>

\* UPS analyze_pdf, lines 203-211: reader.pages[0] and the size check
UpsPageSize ==
    /\ pc = "ups_size"
    /\ IF CurrentFile.pages = <<>>
       THEN Raise /\ UNCHANGED shown
       ELSE LET width_in == CurrentFile.mediabox[1]
                height_in == CurrentFile.mediabox[2]
            IN  /\ loc' = [loc EXCEPT !.width = width_in, !.height = height_in, !.done = @ \cup {"size"}]
                /\ Emit(<< Box("page_size", "write"),
                           IF size_matches(width_in, height_in, ACCEPTED_SIZES, DEFAULT_TOLERANCE)
                           THEN Box("size_ok", "success") ELSE Box("size_mismatch", "warning") >>)
                /\ pc' = "ups_dpi"
    /\ UNCHANGED <<program, uploaded_files, idx, call, ret>>

\* UPS analyze_pdf, lines 213-229
UpsResolution ==
    /\ pc = "ups_dpi"
    /\ IF ResolutionRaises(CurrentFile)
       THEN Raise /\ UNCHANGED shown
       ELSE LET low_res == LowResOf(DocImages(CurrentFile))
            IN  /\ loc' = [loc EXCEPT !.low_res = low_res, !.done = @ \cup {"dpi"}]
                /\ Emit(UpsResolutionBoxes(low_res))
                /\ pc' = "ups_color"
    /\ UNCHANGED <<program, uploaded_files, idx, call, ret>>

\* UPS analyze_pdf, lines 235-276
UpsColor ==
    /\ pc = "ups_color"
    /\ LET r == UpsColorSection(CurrentFile)
       IN  /\ loc' = [loc EXCEPT !.color_spaces = r.color_spaces, !.cs_bound = r.cs_bound,
                                 !.default_cs = r.default_cs, !.stream_cs = r.stream_cs,
                                 !.img_modes = r.img_modes, !.ran = r.ran, !.done = @ \cup {"color"}]
           /\ Emit(<< r.box >>)
    /\ pc' = "ups_margin"
    /\ UNCHANGED <<program, uploaded_files, idx, call, ret>>

\* UPS analyze_pdf, lines 278-288
UpsMargin ==
    /\ pc = "ups_margin"
    /\ LET issues == AllMarginIssues(CurrentFile.pages, 1)
       IN  /\ loc' = [loc EXCEPT !.issues = issues, !.done = @ \cup {"margin"}]
           /\ Emit(IF issues /= <<>> THEN issues ELSE << Box("margin_ok", "success") >>)
    /\ pc' = "loop"
    /\ UNCHANGED <<program, uploaded_files, idx, call, ret>>

\* UPS analyze_image, lines 295-322
AnalyzeImage ==
    /\ pc = "image"
    /\ IF CurrentFile.opens
       THEN /\ Emit(<< Box("file_header", "markdown") >> \o AnalyzeImageBoxes(CurrentFile))
            /\ loc' = [loc EXCEPT !.done = @ \cup {"image"}]
            /\ pc' = "loop"
       ELSE /\ Emit(<< Box("file_header", "markdown") >>)
            /\ Raise
    /\ UNCHANGED <<program, uploaded_files, idx, call, ret>>

\* PDF_Check3 analyze_pdf, lines 97-115: header, PdfReader, reader.pages[0], size validation
Pdf3Open ==
    /\ pc = "pdf3_open"
    /\ IF ~CurrentFile.opens \/ CurrentFile.pages = <<>>
       THEN /\ Emit(<< Box("file_header", "markdown") >>)
            /\ Raise
       ELSE LET width == CurrentFile.mediabox[1]
                height == CurrentFile.mediabox[2]
            IN  /\ loc' = [loc EXCEPT !.width = width, !.height = height, !.done = @ \cup {"size"}]
                /\ Emit(<< Box("file_header", "markdown"), Box("num_pages", "write"), Box("page_size", "write"),
                           IF Abs(width - PRINTER_WIDTH) < PDF3_SIZE_EPS /\ Abs(height - PRINTER_HEIGHT) < PDF3_SIZE_EPS
                           THEN Box("size_ok", "success") ELSE Box("size_mismatch", "warning") >>)
                /\ pc' = "pdf3_dpi"
    /\ UNCHANGED <<program, uploaded_files, idx, call, ret>>

\* PDF_Check3 analyze_pdf, lines 117-141
Pdf3Resolution ==
    /\ pc = "pdf3_dpi"
    /\ IF ResolutionRaises(CurrentFile)
       THEN Raise /\ UNCHANGED shown
       ELSE LET imgs == DocImages(CurrentFile)
                all_dpi == [i \in 1..Len(imgs) |-> DpiOf(imgs[i].img)[1]]
                low_res_images == LowResOf(imgs)
            IN  /\ loc' = [loc EXCEPT !.low_res = low_res_images, !.all_dpi = all_dpi, !.done = @ \cup {"dpi"}]
                /\ Emit(Pdf3ResolutionBoxes(low_res_images, all_dpi))
                /\ pc' = "pdf3_color"
    /\ UNCHANGED <<program, uploaded_files, idx, call, ret>>

\* PDF_Check3 analyze_pdf, lines 143-171
Pdf3Color ==
    /\ pc = "pdf3_color"
    /\ IF ~CurrentFile.pike_opens
       THEN /\ loc' = [loc EXCEPT !.cs_bound = FALSE, !.done = @ \cup {"color"}]
            /\ Emit(<< Box("color_error", "error") >>)
       ELSE LET scan == pdf3_declared_scan(CurrentFile.pages)
            IN  /\ loc' = [loc EXCEPT !.color_spaces = scan.labels, !.cs_bound = TRUE, !.done = @ \cup {"color"}]
                /\ IF scan.raised
                   THEN Emit(<< Box("color_error", "error") >>)
                   ELSE \E order \in Orders(Pdf3Invalid(scan.labels)) :
                            Emit(Pdf3EvaluateBoxes(scan.labels, order))
    /\ pc' = "pdf3_summary"
    /\ UNCHANGED <<program, uploaded_files, idx, call, ret>>

\* PDF_Check3 analyze_pdf, lines 173-187: reading color_spaces raises when the
\* colour check failed before binding it
Pdf3Summary ==
    /\ pc = "pdf3_summary"
    /\ IF ~loc.cs_bound
       THEN /\ Emit(<< Box("summary_header", "subheader") >>)
            /\ Raise
       ELSE LET passed == Pdf3Passed(loc.width, loc.height, loc.low_res, loc.color_spaces)
            IN  /\ loc' = [loc EXCEPT !.passed = passed, !.done = @ \cup {"summary"}]
                /\ Emit(<< Box("summary_header", "subheader"),
                           IF passed THEN Box("summary_pass", "success") ELSE Box("summary_fail", "error") >>)
                /\ pc' = "loop"
    /\ UNCHANGED <<program, uploaded_files, idx, call, ret>>

Next ==
    \/ BatchLoop
    \/ UpsOpen
    \/ UpsPageSize
    \/ UpsResolution
    \/ UpsColor
    \/ UpsMargin
    \/ AnalyzeImage
    \/ Pdf3Open
    \/ Pdf3Resolution
    \/ Pdf3Color
    \/ Pdf3Summary

\* a direct call of size_matches
SizeMatchesCall ==
    /\ program = "size_matches"
    /\ pc = "call"
    /\ ret' = size_matches(call.actual_w, call.actual_h, call.accepted_sizes, call.tolerance)
    /\ pc' = "returned"
    /\ UNCHANGED <<program, uploaded_files, idx, shown, loc, call>>

NextSize == SizeMatchesCall

---------------------------------------------------------------------------
(* Uploads the model runs the scripts on *)

Run(script, files) == [program |-> script, files |-> files]

NoCall == [actual_w |-> 0, actual_h |-> 0, accepted_sizes |-> <<>>, tolerance |-> 0]

InitRuns(runs) ==
    /\ \E r \in runs : program = r.program /\ uploaded_files = r.files
    /\ idx = 0
    /\ pc = "loop"
    /\ shown = <<>>
    /\ loc = FreshLoc
    /\ call = NoCall
    /\ ret = FALSE

\* one plain upload for each handler, part of every family
Baseline ==
    {Run("UPS_File_Check", << BlankPdf >>), Run("UPS_File_Check", << PlainImage >>),
     Run("PDF_Check3", << BlankPdf >>)}

\* the items of a placement that sit on page p
RECURSIVE ItemsOn(_, _)
ItemsOn(items, p) ==
    IF items = <<>> THEN <<>>
    ELSE (IF Head(items)[1] = p THEN << Head(items)[2] >> ELSE <<>>) \o ItemsOn(Tail(items), p)

\* documents of 1..MaxPages pages holding up to MaxItems items of Samples in
\* the page field named, every way of placing them on the pages
DocsWith(field, Samples) ==
    UNION {{[BlankPdf EXCEPT !.pages = [p \in 1..n |-> [BlankPage EXCEPT ![field] = ItemsOn(items, p)]]] :
                items \in SeqsUpTo((1..n) \X Samples, MaxItems)} : n \in 1..MaxPages}

\* documents of 1..MaxPages pages drawn from a set of pages
DocsOfPages(Pages) ==
    {[BlankPdf EXCEPT !.pages = ps] : ps \in UNION {[1..n -> Pages] : n \in 1..MaxPages}}

---- 
(* direct calls of size_matches *)

InitSize ==
    /\ program = "size_matches"
    /\ uploaded_files = <<>>
    /\ idx = 0
    /\ pc = "call"
    /\ shown = <<>>
    /\ loc = FreshLoc
    /\ ret = FALSE
    /\ \E w \in 0..MaxDim, h \in 0..MaxDim, tol \in 0..MaxTol :
       \E sizes \in SeqsUpTo((1..MaxDim) \X (1..MaxDim), MaxSizes) :
           call = [actual_w |-> w, actual_h |-> h, accepted_sizes |-> sizes, tolerance |-> tol]

SpecSize == InitSize /\ [][NextSize]_vars

----
(* batches *)

Unparseable == [BlankPdf EXCEPT !.opens = FALSE, !.pages = <<>>]
ZeroPages == [BlankPdf EXCEPT !.pages = <<>>]
BadRaster == [BlankPdf EXCEPT !.pages = << [BlankPage EXCEPT !.images = << Raster(FALSE, <<>>, "RGB", <<>>) >>] >>]
UpperCasePdf == [BlankPdf EXCEPT !.ext = "PDF"]
BadImage == [PlainImage EXCEPT !.ext = "jpg", !.opens = FALSE]

PdfSamples == {BlankPdf, Unparseable, ZeroPages, BadRaster}
UpsSamples == PdfSamples \cup {UpperCasePdf, PlainImage, BadImage}

BatchRuns ==
    {Run("UPS_File_Check", fs) : fs \in SeqsUpTo(UpsSamples, MaxFiles)}
    \cup {Run("PDF_Check3", fs) : fs \in SeqsUpTo(PdfSamples, MaxFiles)}

InitBatch == InitRuns(BatchRuns)

SpecBatch == InitBatch /\ [][Next]_vars

----
(* resolution: documents with rasters of various DPI, and standalone images *)

DpiSamples == {<<300, 300>>, <<299, 300>>, <<300, 299>>, <<>>}

RasterSamples == {Raster(TRUE, d, "RGB", <<>>) : d \in DpiSamples}

ResolutionDocs == DocsWith("images", RasterSamples)

\* 4 x 6 inch images: the pixel size is 4 and 6 times the DPI
ImageFiles ==
    {[PlainImage EXCEPT !.dpi = d,
                        !.size = <<4 * (IF d = <<>> THEN DEFAULT_DPI ELSE d)[1], 6 * (IF d = <<>> THEN DEFAULT_DPI ELSE d)[2]>>] :
        d \in DpiSamples \cup {<<300, 72>>, <<72, 300>>, <<301, 301>>}}

ResolutionRuns ==
    Baseline
    \cup {Run("UPS_File_Check", << f >>) : f \in ResolutionDocs \cup ImageFiles}
    \cup {Run("PDF_Check3", << f >>) : f \in ResolutionDocs}

InitResolution == InitRuns(ResolutionRuns)

SpecResolution == InitResolution /\ [][Next]_vars

----
(* colour: declared colour spaces, defaults, stream text and raster modes *)

\* labels as str(cs) may give them, with and without the leading slash of a PDF name
XObjectSamples ==
    {XObject("name", "DeviceRGB"), XObject("name", "DeviceGray"), XObject("name", "/DeviceCMYK"), XObject("array", ""),
     XObject("absent", ""), XObject("malformed", "")}

DeclaredDocs == DocsWith("xobjects", XObjectSamples)

RootSamples == {{}, {"/DefaultRGB"}, {"/DefaultCMYK"}, {"/DefaultRGB", "/DefaultCMYK"}}

TextRg == <<"f", " ", "r", "g">>
TextRG == <<" ", "R", "G", " ">>
TextK == <<"1", " ", "k">>
TextUpperK == <<" ", "K">>
TextKThenRg == <<" ", "k", " ", "r", "g">>
TextNoSpace == <<"r", "g", "k", "K", "R", "G">>

ModeSamples == {<<>>, << Raster(TRUE, <<300, 300>>, "RGB", <<>>) >>, << Raster(TRUE, <<300, 300>>, "L", <<>>) >>,
                << Raster(TRUE, <<300, 300>>, "CMYK", <<>>), Raster(TRUE, <<300, 300>>, "P", <<>>) >>}

\* one-page documents combining the evidence of methods 2, 3 and 4
MixedDocs ==
    {[BlankPdf EXCEPT !.root = r, !.root_ok = rok, !.pike_opens = po,
                      !.pages = << [BlankPage EXCEPT !.text = t, !.text_ok = tok, !.images = im] >>] :
        r \in RootSamples, rok \in BOOLEAN, po \in BOOLEAN,
        t \in {<<>>, TextRg, TextK}, tok \in BOOLEAN, im \in ModeSamples}

\* a page whose resources cannot be read, after a page that declared a colour space
BadResources ==
    {[BlankPdf EXCEPT !.pages = << [BlankPage EXCEPT !.xobjects = << x >>], [BlankPage EXCEPT !.res_ok = FALSE] >>] :
        x \in XObjectSamples}

ColorDocs ==
    DeclaredDocs
    \cup {[d EXCEPT !.root = {"/DefaultCMYK"}] : d \in DeclaredDocs}
    \cup {[d EXCEPT !.pike_opens = FALSE] : d \in DeclaredDocs}
    \cup MixedDocs \cup BadResources

ColorRuns ==
    Baseline \cup {Run(script, << f >>) : script \in Scripts, f \in ColorDocs}

InitColor == InitRuns(ColorRuns)

SpecColor == InitColor /\ [][Next]_vars

----
(* stream scan: the page texts of a document *)

TextPages ==
    {[BlankPage EXCEPT !.text = t] : t \in {<<>>, TextRg, TextRG, TextK, TextUpperK, TextKThenRg, TextNoSpace}}
    \cup {[BlankPage EXCEPT !.text_ok = FALSE]}

StreamRuns == Baseline \cup {Run("UPS_File_Check", << f >>) : f \in DocsOfPages(TextPages)}

InitStreams == InitRuns(StreamRuns)

SpecStreams == InitStreams /\ [][Next]_vars

----
(* safe zone: text blocks and image rectangles on Letter pages *)

PageW == LETTER_RECT[1]
PageH == LETTER_RECT[2]

TextBlockSamples ==
    {Rect(10 * PointUnit, 10 * PointUnit, 100 * PointUnit, 30 * PointUnit, "inside"),
     Rect(5 * PointUnit, 5 * PointUnit, 100 * PointUnit, 30 * PointUnit, "near"),
     Rect(0, 0, 100 * PointUnit, 20 * PointUnit, "flush"),
     Rect(SAFE_MARGIN, 10 * PointUnit, 100 * PointUnit, 30 * PointUnit, "touch left"),
     Rect(SAFE_MARGIN - 1, 10 * PointUnit, 100 * PointUnit, 30 * PointUnit, "cross left"),
     Rect(10 * PointUnit, SAFE_MARGIN, 100 * PointUnit, 30 * PointUnit, "touch top"),
     Rect(10 * PointUnit, SAFE_MARGIN - 1, 100 * PointUnit, 30 * PointUnit, "cross top"),
     Rect(10 * PointUnit, 10 * PointUnit, PageW - SAFE_MARGIN, 30 * PointUnit, "touch right"),
     Rect(10 * PointUnit, 10 * PointUnit, PageW - SAFE_MARGIN + 1, 30 * PointUnit, "cross right"),
     Rect(10 * PointUnit, 10 * PointUnit, 100 * PointUnit, PageH - SAFE_MARGIN, "touch bottom"),
     Rect(10 * PointUnit, 10 * PointUnit, 100 * PointUnit, PageH - SAFE_MARGIN + 1, "cross bottom")}

PlacedRasterSamples ==
    {Raster(TRUE, <<300, 300>>, "RGB", rs) :
        rs \in {<< Rect(10 * PointUnit, 10 * PointUnit, 100 * PointUnit, 30 * PointUnit, "") >>,
                << Rect(SAFE_MARGIN, SAFE_MARGIN, PageW - SAFE_MARGIN, PageH - SAFE_MARGIN, "") >>,
                << Rect(10 * PointUnit, 10 * PointUnit, PageW, 30 * PointUnit, "") >>,
                << Rect(10 * PointUnit, 10 * PointUnit, 100 * PointUnit, 30 * PointUnit, ""),
                   Rect(10 * PointUnit, SAFE_MARGIN - 1, 100 * PointUnit, 30 * PointUnit, "") >>}}

MarginItems ==
    {[field |-> "blocks", v |-> b] : b \in TextBlockSamples}
    \cup {[field |-> "images", v |-> r] : r \in PlacedRasterSamples}

RECURSIVE FieldItems(_, _)
FieldItems(items, field) ==
    IF items = <<>> THEN <<>>
    ELSE (IF Head(items).field = field THEN << Head(items).v >> ELSE <<>>) \o FieldItems(Tail(items), field)

MarginPage(items) ==
    [BlankPage EXCEPT !.blocks = FieldItems(items, "blocks"), !.images = FieldItems(items, "images")]

\* pages holding up to MaxItems boxes
CrowdedPages == {MarginPage(items) : items \in SeqsUpTo(MarginItems, MaxItems)}

\* pages holding at most one box, for the documents of several pages
SparsePages ==
    {BlankPage}
    \cup {MarginPage(<< [field |-> "blocks", v |-> b] >>) :
             b \in {Rect(SAFE_MARGIN, 10 * PointUnit, 100 * PointUnit, 30 * PointUnit, "touch left"),
                    Rect(10 * PointUnit, 10 * PointUnit, PageW - SAFE_MARGIN + 1, 30 * PointUnit, "cross right")}}
    \cup {MarginPage(<< [field |-> "images", v |-> Raster(TRUE, <<300, 300>>, "RGB",
                            << Rect(10 * PointUnit, 10 * PointUnit, PageW, 30 * PointUnit, "") >>)] >>)}

MarginDocs ==
    {[BlankPdf EXCEPT !.pages = << page >>] : page \in CrowdedPages} \cup DocsOfPages(SparsePages)

MarginRuns == Baseline \cup {Run("UPS_File_Check", << f >>) : f \in MarginDocs}

InitMargin == InitRuns(MarginRuns)

SpecMargin == InitMargin /\ [][Next]_vars

----
(* summary of PDF_Check3: page sizes, rasters and declared colour spaces together *)

MediaBoxSamples ==
    {<<PRINTER_WIDTH, PRINTER_HEIGHT>>,
     <<PRINTER_WIDTH + PDF3_SIZE_EPS - 1, PRINTER_HEIGHT - PDF3_SIZE_EPS + 1>>,
     <<PRINTER_WIDTH + PDF3_SIZE_EPS, PRINTER_HEIGHT>>,
     <<PRINTER_HEIGHT, PRINTER_WIDTH>>,
     <<400 * Centi, 600 * Centi>>}

SummaryDocs ==
    {[d EXCEPT !.mediabox = mb, !.pike_opens = po, !.pages[1].images = im] :
        d \in DocsWith("xobjects", {XObject("name", "DeviceRGB"), XObject("name", "DeviceGray"), XObject("malformed", "")})
              \cup BadResources,
        mb \in MediaBoxSamples, po \in BOOLEAN,
        im \in {<<>>, << Raster(TRUE, <<300, 300>>, "RGB", <<>>) >>, << Raster(TRUE, <<>>, "RGB", <<>>) >>}}

SummaryRuns == Baseline \cup {Run("PDF_Check3", << f >>) : f \in SummaryDocs}

InitSummary == InitRuns(SummaryRuns)

SpecSummary == InitSummary /\ [][Next]_vars

---------------------------------------------------------------------------
(* Properties *)

\* the positions in shown of the boxes of file i with one of the messages
BoxesOf(i, msgs) == {k \in 1..Len(shown) : shown[k].file = i /\ shown[k].msg \in msgs}

Shows(i, msg) == BoxesOf(i, {msg}) /= {}

InUps == program = "UPS_File_Check"
InPdf3 == program = "PDF_Check3"

\* the handler of the current file has completed the section
SectionDone(section) == idx >= 1 /\ section \in loc.done

----
(* C1: size_matches returns TRUE exactly when some accepted size fits the
   measured size within the tolerance in one of the two orientations; with no
   fitting entry (the empty list included) it returns FALSE; and swapping the
   measured width and height does not change the result. *)
C1_SizeMatchesIffSomeEntryFits ==
    (program = "size_matches" /\ pc = "returned") =>
        LET w == call.actual_w
            h == call.actual_h
            S == call.accepted_sizes
            tol == call.tolerance
            fits == \E i \in 1..Len(S) :
                        \/ (Abs(w - S[i][1]) <= tol /\ Abs(h - S[i][2]) <= tol)
                        \/ (Abs(w - S[i][2]) <= tol /\ Abs(h - S[i][1]) <= tol)
        IN  /\ ret \in BOOLEAN
            /\ ret = fits
            /\ ret = size_matches(h, w, S, tol)

\* a call that matches in the rotated orientation only
C1_Witness ==
    /\ program = "size_matches" /\ pc = "returned" /\ ret = TRUE
    /\ \A i \in 1..Len(call.accepted_sizes) :
           ~(Abs(call.actual_w - call.accepted_sizes[i][1]) <= call.tolerance
             /\ Abs(call.actual_h - call.accepted_sizes[i][2]) <= call.tolerance)

----
(* C7: the batch never aborts on one item's error: when the script run has
   ended, every uploaded file has been analysed to the end of its handler or
   reported as a failed item. *)
HandlerReturned(i) == i < idx \/ (i = idx /\ pc \in {"loop", "done"})

C7_BatchNeverAborts ==
    (pc \in {"done", "raised"}) =>
        \A i \in 1..Len(uploaded_files) : HandlerReturned(i) \/ Shows(i, "item_failed")

----
(* C2: in PDF_Check3, once the colour check of a file is over (its error
   branch included) the summary is computed, and passed is TRUE exactly when
   the page size matched, no raster was low-resolution and no detected
   colorant is outside the accepted list. *)
C2_SummaryAlwaysComputed ==
    (InPdf3 /\ SectionDone("color") /\ pc /= "pdf3_summary") =>
        /\ "summary" \in loc.done
        /\ loc.passed = (/\ Shows(idx, "size_ok")
                         /\ ~Shows(idx, "low_dpi")
                         /\ loc.color_spaces \subseteq PDF3_ACCEPTED_COLOR)
        /\ Shows(idx, IF loc.passed THEN "summary_pass" ELSE "summary_fail")

----
(* C3: every resolution check flags a sample exactly when its horizontal or
   its vertical DPI is below MIN_DPI: one low-resolution entry per such raster
   of a document (both scripts), and the low-resolution warning for a
   standalone image exactly when one of its two DPI values is below MIN_DPI. *)
BelowMinimum(dpi) == dpi[1] < MIN_DPI \/ dpi[2] < MIN_DPI

C3_EveryResolutionCheckUsesBothAxes ==
    /\ SectionDone("dpi") =>
           LET imgs == DocImages(CurrentFile)
               low == {k \in 1..Len(imgs) : BelowMinimum(DpiOf(imgs[k].img))}
               boxes == BoxesOf(idx, {"low_dpi"})
           IN  /\ Cardinality(boxes) = Cardinality(low)
               /\ \A k \in low : \E b \in boxes :
                      shown[b].page = imgs[k].page /\ shown[b].dpi = DpiOf(imgs[k].img)
               /\ \A b \in boxes : \E k \in low :
                      shown[b].page = imgs[k].page /\ shown[b].dpi = DpiOf(imgs[k].img)
    /\ SectionDone("image") =>
           /\ Shows(idx, "image_low_dpi") = BelowMinimum(DpiOf(CurrentFile))
           /\ Shows(idx, "image_dpi_ok") = ~BelowMinimum(DpiOf(CurrentFile))

----
(* C4: the safe-zone check enforces 1/8 inch (9 points): the success box is
   shown only if no text block and no image rectangle of any page comes closer
   than 9 points to a page edge, and any closer box yields a margin issue. *)
EighthInch == 9 * PointUnit

PageRects(page) == Range(page.blocks) \cup Range(ImageRects(page.images))

WithinEighthInchOfEdge(r, page) ==
    \/ r.x0 < EighthInch
    \/ r.y0 < EighthInch
    \/ r.x1 > page.rect[1] - EighthInch
    \/ r.y1 > page.rect[2] - EighthInch

C4_SafeZoneIsEighthInch ==
    (InUps /\ SectionDone("margin")) =>
        LET intrudes == \E p \in 1..Len(CurrentFile.pages) : \E r \in PageRects(CurrentFile.pages[p]) :
                            WithinEighthInchOfEdge(r, CurrentFile.pages[p])
        IN  /\ Shows(idx, "margin_ok") => ~intrudes
            /\ intrudes => (Shows(idx, "margin_text") \/ Shows(idx, "margin_image"))

----
(* C6: in the colour check of UPS_File_Check all four detection methods run
   for every document pikepdf opens, the colorant set is the union of the labels of the
   methods that did not fail, and no failure is shown as an error. *)
DeclaredFails(file) ==
    \E p \in 1..Len(file.pages) :
        ~file.pages[p].res_ok \/ \E x \in Range(file.pages[p].xobjects) : x.kind = "malformed"

DeclaredLabels(file) ==
    UNION {{x.label : x \in {y \in Range(file.pages[p].xobjects) : y.kind = "name"}} : p \in 1..Len(file.pages)}

RasterScanFails(file) == \E k \in 1..Len(DocImages(file)) : ~DocImages(file)[k].img.decodes

LabelSet(cs) == IF cs = "None" THEN {} ELSE {cs}

C6_StrategiesAreIndependent ==
    (InUps /\ SectionDone("color") /\ CurrentFile.pike_opens) =>
        /\ loc.ran = {1, 2, 3, 4}
        /\ ~Shows(idx, "color_error")
        /\ loc.color_spaces =
              (IF DeclaredFails(CurrentFile) THEN {} ELSE DeclaredLabels(CurrentFile))
              \cup LabelSet(detect_default_color_space(CurrentFile))
              \cup LabelSet(detect_color_from_streams(CurrentFile))
              \cup (IF RasterScanFails(CurrentFile) THEN {}
                    ELSE {DocImages(CurrentFile)[k].img.mode : k \in 1..Len(DocImages(CurrentFile))})

----
(* C8: for a document without embedded rasters the resolution check of both
   scripts shows an informational "no images" outcome, and neither the
   "all images meet the minimum" outcome nor a low-resolution entry. *)
C8_NoRasterIsInformational ==
    (SectionDone("dpi") /\ DocImages(CurrentFile) = <<>>) =>
        /\ Shows(idx, "no_images")
        /\ ~Shows(idx, "dpi_ok")
        /\ ~Shows(idx, "low_dpi")
        /\ \A k \in BoxesOf(idx, {"no_images"}) : shown[k].type = "info"

----
(* C5 *)
InClosedInset(r, page) ==
    /\ SAFE_MARGIN <= r.x0 /\ SAFE_MARGIN <= r.y0
    /\ r.x1 <= page.rect[1] - SAFE_MARGIN /\ r.y1 <= page.rect[2] - SAFE_MARGIN

StrictlyInsideInset(r, page) ==
    /\ SAFE_MARGIN < r.x0 /\ SAFE_MARGIN < r.y0
    /\ r.x1 < page.rect[1] - SAFE_MARGIN /\ r.y1 < page.rect[2] - SAFE_MARGIN

\* the margin issues of the current file are, page by page, one per text block
\* and one per image rectangle that is not inside the inset rectangle (strictly
\* inside, or inside the closed rectangle), and each text issue carries the text
\* of such a block
OneIssuePerBoxNotInside(strictly) ==
    \A p \in 1..Len(CurrentFile.pages) :
        LET page == CurrentFile.pages[p]
            rects == ImageRects(page.images)
            Inside(r) == IF strictly THEN StrictlyInsideInset(r, page) ELSE InClosedInset(r, page)
            badBlocks == {k \in 1..Len(page.blocks) : ~Inside(page.blocks[k])}
            badRects == {k \in 1..Len(rects) : ~Inside(rects[k])}
            textIssues == {k \in BoxesOf(idx, {"margin_text"}) : shown[k].page = p}
            imageIssues == {k \in BoxesOf(idx, {"margin_image"}) : shown[k].page = p}
        IN  /\ Cardinality(textIssues) = Cardinality(badBlocks)
            /\ Cardinality(imageIssues) = Cardinality(badRects)
            /\ \A k \in textIssues : \E b \in badBlocks : shown[k].text = page.blocks[b].text
            /\ \A b \in badBlocks : \E k \in textIssues : shown[k].text = page.blocks[b].text

(* C5 as stated: check_margin emits exactly one issue for each text block or
   image rectangle that is not strictly inside the inset rectangle
   [m, W-m] x [m, H-m], so a box touching the inset boundary is reported. *)
C5_TouchingBoxIsReported ==
    (InUps /\ SectionDone("margin")) => OneIssuePerBoxNotInside(TRUE)

(* C5 as amended: check_margin emits exactly one issue for each text block or
   image rectangle with x0 < m, y0 < m, x1 > W-m or y1 > H-m, that is, for each
   box not contained in the closed inset rectangle, and none for the others;
   a box that exactly touches the inset boundary is not reported. *)
C5_OneIssuePerBoxOutsideClosedInset ==
    (InUps /\ SectionDone("margin")) => OneIssuePerBoxNotInside(FALSE)

\* a file with a block touching the inset boundary that drew no issue, and
\* another box that did
C5_Witness ==
    /\ InUps /\ SectionDone("margin")
    /\ loc.issues /= <<>>
    /\ \E p \in 1..Len(CurrentFile.pages) : \E b \in Range(CurrentFile.pages[p].blocks) :
           /\ b.x0 = SAFE_MARGIN
           /\ InClosedInset(b, CurrentFile.pages[p])
           /\ \A k \in BoxesOf(idx, {"margin_text"}) : shown[k].text /= b.text

----
(* C9: where the colour check reaches its evaluation, the labels reported as
   unsupported are exactly the detected labels outside the accepted list, each
   reported once; a non-empty detected set inside the accepted list gives the
   valid outcome; an empty detected set gives the "no colour information"
   outcome, which is neither an unsupported-colorant report nor an error, and
   does not fail the summary of PDF_Check3. *)
C9_UnsupportedIsDetectedMinusAccepted ==
    (SectionDone("color") /\ ~Shows(idx, "color_error")) =>
        LET D == loc.color_spaces
            A == IF InUps THEN ACCEPTED_COLOR ELSE PDF3_ACCEPTED_COLOR
            reports == BoxesOf(idx, {"unsupported_color"})
        IN  /\ UNION {shown[k].labels : k \in reports} = D \ A
            /\ \A k1, k2 \in reports : k1 /= k2 => shown[k1].labels \cap shown[k2].labels = {}
            /\ Shows(idx, "color_ok") = (D /= {} /\ D \subseteq A)
            /\ Shows(idx, "no_color_info") = (D = {})
            /\ D = {} => /\ reports = {}
                         /\ \A k \in BoxesOf(idx, {"no_color_info"}) : shown[k].type /= "error"
            /\ (InPdf3 /\ "summary" \in loc.done /\ D = {}) =>
                   loc.passed = (Shows(idx, "size_ok") /\ ~Shows(idx, "low_dpi"))

\* a file whose detected set holds an accepted and an unsupported label
C9_Witness ==
    /\ SectionDone("color") /\ ~Shows(idx, "color_error")
    /\ Shows(idx, "unsupported_color")
    /\ loc.color_spaces \cap (IF InUps THEN ACCEPTED_COLOR ELSE PDF3_ACCEPTED_COLOR) /= {}
    /\ Cardinality(loc.color_spaces) >= 2

----
(* C10 *)
PageHasToken(page) == HasRgbToken(page.text) \/ HasCmykToken(page.text)

\* the scan reaches a page whose get_text raises
ScanRaises(pages) ==
    \E i \in 1..Len(pages) : ~pages[i].text_ok /\ \A j \in 1..(i - 1) : ~PageHasToken(pages[j])

\* the colorant set is the union of what the four methods returned
UnionOfMethods ==
    loc.color_spaces = UpsDeclared(CurrentFile).labels \cup LabelSet(loc.default_cs)
                       \cup LabelSet(loc.stream_cs) \cup loc.img_modes

(* C10 as stated: RGB tokens win over CMYK tokens across the whole document:
   the result is "RGB" if any page holds an RGB token, otherwise "CMYK" if any
   page holds a CMYK token, otherwise (or when the scan raises) None. *)
C10_RgbWinsOverAllPages ==
    (InUps /\ SectionDone("color") /\ 3 \in loc.ran) =>
        LET pages == CurrentFile.pages
        IN  /\ loc.stream_cs =
                  (IF ScanRaises(pages) THEN "None"
                   ELSE IF \E i \in 1..Len(pages) : HasRgbToken(pages[i].text) THEN "RGB"
                   ELSE IF \E i \in 1..Len(pages) : HasCmykToken(pages[i].text) THEN "CMYK"
                   ELSE "None")
            /\ UnionOfMethods

(* C10 as amended: detect_color_from_streams contributes at most one label;
   the pages are scanned in order and the first page that holds any token
   decides: "RGB" if it holds an RGB token, otherwise "CMYK"; the result is
   None, and nothing is added, when no page holds a token or when get_text
   raises before such a page. *)
C10_FirstPageWithTokenDecides ==
    (InUps /\ SectionDone("color") /\ 3 \in loc.ran) =>
        LET pages == CurrentFile.pages
            stops == {i \in 1..Len(pages) : ~pages[i].text_ok \/ PageHasToken(pages[i])}
            first == CHOOSE i \in stops : \A j \in stops : i <= j
        IN  /\ loc.stream_cs =
                  (IF stops = {} THEN "None"
                   ELSE IF ~pages[first].text_ok THEN "None"
                   ELSE IF HasRgbToken(pages[first].text) THEN "RGB"
                   ELSE "CMYK")
            /\ UnionOfMethods

\* a CMYK-only page before a page with an RGB token: the result is CMYK
C10_Witness ==
    /\ InUps /\ SectionDone("color") /\ 3 \in loc.ran
    /\ loc.stream_cs = "CMYK"
    /\ \E i \in 1..Len(CurrentFile.pages) : HasRgbToken(CurrentFile.pages[i].text)

====
